---- MODULE Spec2Model ----
(***************************************************************************)
(* Model of the asev dispatcher: ev_service (construction, submission,     *)
(* run/stop, the per-thread loop trun, the worker claim do_work) and       *)
(* detail::worker (push_event, work).                                      *)
(***************************************************************************)
EXTENDS Integers, Sequences, FiniteSets, TLC

\* ---- bounds of the model ------------------------------------------------
MaxThreads   == 2   \* largest thread_num requested from the constructor
MaxWorkers   == 2   \* largest worker_num requested from the constructor
MaxEvents    == 4   \* async() calls of a single submitting thread
NumProducers == 2   \* submitting threads that call async() concurrently
RaceEvents   == 2   \* async() calls shared by the concurrent submitters
LifeEvents   == 1   \* async() calls next to tstart()/texit() calls
MaxTstart    == 1   \* number of tstart() calls
MaxTexit     == 1   \* number of texit() calls
FaultEvents  == 4   \* async() calls when a handler may fault
MaxTsegv     == 1   \* number of tsegv() calls
ASEV_MAX_EV_SERVICE == 2   \* size of thread_local_pool_array::arr_ (the
                           \* macro is defined in asev/config.hpp; the model
                           \* takes a small value)

VARIABLES
  plan,         \* what the application is going to call (see Plans)
  req,          \* <<thread_num, worker_num>> as passed to the constructor
  ctor,         \* the constructor's position and its two size parameters
  dtor,         \* "alive", or "done" once the destructor has run
  evs_uid,      \* the static counter evs_uid of the process
  uid_,         \* uid_ of the dispatcher
  tsegv_que,    \* thread_data::tsegv_que_ of every thread
  thread_num,   \* thread_data_list_.size(), 0 before construction
  worker_num,   \* worker_list_.size(), 0 before construction
  que,          \* worker::que_ of every worker
  sworks,       \* worker::sworks_ of every worker
  workshop,     \* workshop_: atomic slot of every worker
  cnt,          \* thread_data::cnt_ of every thread
  stop_,        \* thread_data::stop_ of every thread
  tstart_que,   \* thread_data::tstart_que_ of every thread
  texit_que,    \* thread_data::texit_que_ of every thread
  curr_sndidx,  \* curr_sndidx_
  thr,          \* per dispatcher thread: position in trun and its locals
  prod,         \* per submitting thread: position in async() and locals
  stopper,      \* position of the thread that calls stop()
  runpc,        \* position of the thread that calls run()
  reg,          \* position of the thread that calls tstart()/texit()
  hist          \* observations: what was pushed, handled, selected, run

vars == <<plan, req, ctor, dtor, evs_uid, uid_, tsegv_que, thread_num, worker_num, que, sworks, workshop, cnt, stop_,
          tstart_que, texit_que, curr_sndidx, thr, prod, stopper, runpc,
          reg, hist>>

Threads   == 0 .. thread_num - 1
Workers   == 0 .. worker_num - 1
Producers == 1 .. NumProducers

\* A worker pointer: <<w>> is &worker_list_[w], <<>> is nullptr.
nullptr      == << >>
WorkerPtr(w) == << w >>

\* ---- construction -------------------------------------------------------
\* thread_num = thread_num == 0 ? 1 : thread_num
CtorThreadNum(tn) == IF tn = 0 THEN 1 ELSE tn

\* (mutant) worker_num is taken as requested
CtorWorkerNumAsGiven(tn, wn) == wn

\* if (worker_num < thread_num) worker_num = thread_num
CtorWorkerNum(tn, wn) == IF wn < CtorThreadNum(tn) THEN CtorThreadNum(tn) ELSE wn

\* priors / minors of thread tidx, in increasing worker order
RECURSIVE Partition(_, _, _, _, _)
Partition(n, wnum, tnum, tidx, prior) ==
  IF n >= wnum THEN << >>
  ELSE IF ((n % tnum) = tidx) = prior
       THEN << n >> \o Partition(n + 1, wnum, tnum, tidx, prior)
       ELSE Partition(n + 1, wnum, tnum, tidx, prior)

priors(tidx) == Partition(0, worker_num, thread_num, tidx, TRUE)
minors(tidx) == Partition(0, worker_num, thread_num, tidx, FALSE)

NewThread == [pc |-> "new", expected_pworks |-> 0, pworks |-> 0, works |-> 0,
              wlv |-> "prior", k |-> 1, wkr |-> nullptr, ev |-> << >>,
              fault |-> "no"]

NewHist == [pushed    |-> << >>,   \* per worker: events in push order
            handled   |-> << >>,   \* per worker: events in handle order, and by whom
            selected  |-> << >>,   \* results of select_strand_index
            tstartRan |-> << >>,   \* per thread: tstart handlers run
            texitRan  |-> << >>,   \* per thread: texit handlers run
            works     |-> << >>,   \* per thread: events handled
            earlyT    |-> {},      \* tstart handlers registered before run()
            earlyX    |-> {},      \* texit handlers registered before run()
            tsegvRan  |-> << >>,   \* per thread: tsegv handlers run
            logged    |-> {},      \* threads whose recovery logged the trace
            faultOn   |-> {},      \* workers whose handler took the fault
            afterStop |-> {},      \* events submitted after stop() and run() ended
            released  |-> [que |-> << >>, tstart |-> << >>, texit |-> << >>]]
                                   \* what the destructor found in the queues

\* What the threads of the application do with the dispatcher: how many
\* threads submit, how many async() calls they make in total, how many
\* tstart() / texit() / tsegv() calls are made, whether those may come after
\* run(), how many dispatchers the process has constructed before this one,
\* and whether a handler may take a hardware fault.
\* stop() and run() may be called under every plan.
Plans ==
  { [producers |-> 1, events |-> MaxEvents, tstarts |-> 0, texits |-> 0,
     tsegvs |-> 0, late |-> FALSE, prior |-> 0, fault |-> FALSE],
    [producers |-> NumProducers, events |-> RaceEvents, tstarts |-> 0,
     texits |-> 0, tsegvs |-> 0, late |-> FALSE, prior |-> 0, fault |-> FALSE],
    [producers |-> 1, events |-> LifeEvents, tstarts |-> MaxTstart,
     texits |-> MaxTexit, tsegvs |-> 0, late |-> FALSE, prior |-> 0,
     fault |-> FALSE],
    [producers |-> 0, events |-> 0, tstarts |-> MaxTstart, texits |-> 0,
     tsegvs |-> 0, late |-> TRUE, prior |-> 0, fault |-> FALSE],
    [producers |-> 0, events |-> 0, tstarts |-> MaxTstart, texits |-> MaxTexit,
     tsegvs |-> 0, late |-> FALSE, prior |-> ASEV_MAX_EV_SERVICE,
     fault |-> FALSE],
    [producers |-> 1, events |-> FaultEvents, tstarts |-> 0, texits |-> 0,
     tsegvs |-> MaxTsegv, late |-> FALSE, prior |-> 0, fault |-> TRUE] }

Init ==
  /\ plan \in Plans
  /\ req \in (0 .. MaxThreads) \X (0 .. MaxWorkers)
  /\ ctor = [pc |-> "call", thread_num |-> req[1], worker_num |-> req[2]]
  /\ thread_num = 0
  /\ worker_num = 0
  /\ que = << >>
  /\ sworks = << >>
  /\ workshop = << >>
  /\ cnt = << >>
  /\ stop_ = << >>
  /\ tstart_que = << >>
  /\ texit_que = << >>
  /\ tsegv_que = << >>
  /\ dtor = "alive"
  /\ evs_uid = plan.prior
  /\ uid_ = 0
  /\ curr_sndidx = 0
  /\ thr = << >>
  /\ prod = [p \in Producers |-> [pc |-> "idle", sndidx |-> 0, target |-> 0, n |-> 0]]
  /\ stopper = [pc |-> "idle", i |-> 0]
  /\ runpc = "init"
  /\ reg = [pc |-> "idle", i |-> 0, h |-> 0, nstart |-> 0, nexit |-> 0,
            nsegv |-> 0, doneT |-> {}, doneX |-> {}, doneS |-> {},
            pool |-> "none"]
  /\ hist = NewHist

Constructed == thread_num > 0

\* the dispatcher has been constructed and not destroyed, and no assertion
\* has failed
Live == Constructed /\ dtor = "alive" /\ reg.pc \notin {"failed", "crashed"}

\* no handler has taken a hardware fault
NoFault == \A t \in Threads : thr[t].fault = "no"

\* stop() has completed and run() has returned
Stopped == stopper.pc = "done" /\ runpc = "returned"

\* ev_service::ev_service: uid_ = evs_uid++, and the two assignments that
\* normalize the parameters thread_num and worker_num
CtorNormalize ==
  /\ ctor.pc = "call"
  /\ uid_' = evs_uid
  /\ evs_uid' = evs_uid + 1
  /\ ctor' = [pc |-> "normalized",
              thread_num |-> CtorThreadNum(ctor.thread_num),
              worker_num |-> CtorWorkerNum(ctor.thread_num, ctor.worker_num)]
  /\ UNCHANGED <<plan, req, dtor, tsegv_que, thread_num, worker_num,
                 que, sworks, workshop, cnt,
                 stop_, tstart_que, texit_que, curr_sndidx, thr, prod, stopper,
                 runpc, reg, hist>>

\* ev_service::ev_service: "Make thread data", "Make workers", "Push all
\* workers into workshop_"; the constructor returns and its arguments are gone
Construct ==
  /\ ctor.pc = "normalized"
  /\ LET tn == ctor.thread_num
         wn == ctor.worker_num
     IN /\ thread_num' = tn
        /\ worker_num' = wn
        /\ thr' = [t \in 0 .. tn - 1 |-> NewThread]
        /\ cnt' = [t \in 0 .. tn - 1 |-> 0]
        /\ stop_' = [t \in 0 .. tn - 1 |-> FALSE]
        /\ tstart_que' = [t \in 0 .. tn - 1 |-> << >>]
        /\ texit_que' = [t \in 0 .. tn - 1 |-> << >>]
        /\ tsegv_que' = [t \in 0 .. tn - 1 |-> << >>]
        /\ que' = [w \in 0 .. wn - 1 |-> << >>]
        /\ sworks' = [w \in 0 .. wn - 1 |-> 0]
        /\ workshop' = [w \in 0 .. wn - 1 |-> WorkerPtr(w)]
        /\ hist' = [hist EXCEPT !.pushed = [w \in 0 .. wn - 1 |-> << >>],
                                !.handled = [w \in 0 .. wn - 1 |-> << >>],
                                !.tstartRan = [t \in 0 .. tn - 1 |-> << >>],
                                !.texitRan = [t \in 0 .. tn - 1 |-> << >>],
                                !.tsegvRan = [t \in 0 .. tn - 1 |-> << >>],
                                !.works = [t \in 0 .. tn - 1 |-> 0]]
  /\ ctor' = [pc |-> "done", thread_num |-> 0, worker_num |-> 0]
  /\ req' = << 0, 0 >>
  /\ UNCHANGED <<plan, dtor, evs_uid, uid_, curr_sndidx, prod, stopper, runpc, reg>>

\* ---- cque::mpsc_count ---------------------------------------------------
\* synchronized_incr(mtx, cv): increment, and signal cv under mtx; a thread
\* blocked on the cv is woken and re-reads the counter.
\* reset(): swap the counter to zero and return the previous value.
\* synchronized_reset(mtx, cv): reset under mtx; if zero, wait on cv.
synchronized_incr_cnt(t) == [cnt EXCEPT ![t] = @ + 1]

\* (mutant) the increment does not signal the condition variable
synchronized_incr_silent(t) == thr

\* synchronized_incr: the signal; a consumer blocked on the cv re-reads the
\* counter under the mutex
synchronized_incr_thr(t) ==
  IF thr[t].pc = "blocked" THEN [thr EXCEPT ![t].pc = "wait"] ELSE thr

\* ---- submission: async() = select_strand_index(); pri_async() -----------
RECURSIVE SumN(_)
SumN(S) == IF S = {} THEN 0
           ELSE LET p == CHOOSE q \in S : TRUE IN prod[p].n + SumN(S \ {p})
Submitted == SumN(Producers)

\* the value select_strand_index stores back into curr_sndidx_
NextSndidx(sndidx) == IF sndidx + 1 >= worker_num THEN 0 ELSE sndidx + 1

\* select_strand_index: sndidx = curr_sndidx_.load(relaxed); result = sndidx
SelectLoad(p) ==
  /\ Live
  /\ prod[p].pc = "idle"
  /\ p <= plan.producers
  /\ Submitted < plan.events
  /\ prod' = [prod EXCEPT ![p].pc = "store", ![p].sndidx = curr_sndidx,
                          ![p].target = curr_sndidx, ![p].n = @ + 1]
  /\ hist' = [hist EXCEPT !.selected = Append(@, curr_sndidx),
                          !.afterStop = IF Stopped
                                        THEN @ \cup {<< p, prod[p].n + 1 >>}
                                        ELSE @]
  /\ UNCHANGED <<plan, req, ctor, dtor, evs_uid, uid_, tsegv_que, thread_num, worker_num, que, sworks, workshop, cnt, stop_,
                 tstart_que, texit_que, curr_sndidx, thr, stopper, runpc, reg>>

\* select_strand_index: ++sndidx, wrap, curr_sndidx_.store(sndidx, relaxed)
SelectStore(p) ==
  /\ prod[p].pc = "store"
  /\ curr_sndidx' = NextSndidx(prod[p].sndidx)
  /\ prod' = [prod EXCEPT ![p].pc = "push"]
  /\ UNCHANGED <<plan, req, ctor, dtor, evs_uid, uid_, tsegv_que, thread_num, worker_num, que, sworks, workshop, cnt, stop_,
                 tstart_que, texit_que, thr, stopper, runpc, reg, hist>>

\* the event the p-th producer is submitting
EventOf(p) == << p, prod[p].n >>

\* pri_async: worker_list_[target].push_event(ev)
PushEvent(p) ==
  /\ prod[p].pc = "push"
  /\ que' = [que EXCEPT ![prod[p].target] = Append(@, EventOf(p))]
  /\ prod' = [prod EXCEPT ![p].pc = "notify"]
  /\ hist' = [hist EXCEPT !.pushed[prod[p].target] = Append(@, EventOf(p))]
  /\ UNCHANGED <<plan, req, ctor, dtor, evs_uid, uid_, tsegv_que, thread_num, worker_num, sworks, workshop, cnt, stop_,
                 tstart_que, texit_que, curr_sndidx, thr, stopper, runpc, reg>>

\* (mutant) every notification goes to the first thread
NotifyTargetFirst(wkridx) == 0

\* the thread notify_thread signals for worker wkridx
NotifyTarget(wkridx) == wkridx % thread_num

\* pri_async: notify_thread(target)
NotifyThread(p) ==
  /\ prod[p].pc = "notify"
  /\ cnt' = synchronized_incr_cnt(NotifyTarget(prod[p].target))
  /\ thr' = synchronized_incr_thr(NotifyTarget(prod[p].target))
  /\ prod' = [prod EXCEPT ![p].pc = "idle"]
  /\ UNCHANGED <<plan, req, ctor, dtor, evs_uid, uid_, tsegv_que, thread_num, worker_num, que, sworks, workshop, stop_,
                 tstart_que, texit_que, curr_sndidx, stopper, runpc, reg, hist>>

\* ---- run() and stop() ---------------------------------------------------
\* run(): the thread pool is started
RunStart ==
  /\ Live
  /\ runpc = "init"
  /\ plan.late \/ reg.pc = "idle"
  /\ runpc' = "joining"
  /\ hist' = [hist EXCEPT !.earlyT = reg.doneT, !.earlyX = reg.doneX]
  /\ UNCHANGED <<plan, req, ctor, dtor, evs_uid, uid_, tsegv_que, thread_num, worker_num, que, sworks, workshop, cnt, stop_,
                 tstart_que, texit_que, curr_sndidx, thr, prod, stopper, reg>>

\* run(): every thr.join() has returned
RunJoin ==
  /\ runpc = "joining"
  /\ \A t \in Threads : thr[t].pc = "exited"
  /\ runpc' = "returned"
  /\ UNCHANGED <<plan, req, ctor, dtor, evs_uid, uid_, tsegv_que, thread_num, worker_num, que, sworks, workshop, cnt, stop_,
                 tstart_que, texit_que, curr_sndidx, thr, prod, stopper, reg, hist>>

\* stop() is entered
StopCall ==
  /\ Live
  /\ stopper.pc = "idle"
  /\ stopper' = [pc |-> "flag", i |-> 0]
  /\ UNCHANGED <<plan, req, ctor, dtor, evs_uid, uid_, tsegv_que, thread_num, worker_num, que, sworks, workshop, cnt, stop_,
                 tstart_que, texit_que, curr_sndidx, thr, prod, runpc, reg, hist>>

\* stop(), first loop: thrdat.stop_ = true
StopFlag ==
  /\ stopper.pc = "flag"
  /\ stop_' = [stop_ EXCEPT ![stopper.i] = TRUE]
  /\ stopper' = IF stopper.i + 1 < thread_num
                THEN [stopper EXCEPT !.i = @ + 1]
                ELSE [pc |-> "incr", i |-> 0]
  /\ UNCHANGED <<plan, req, ctor, dtor, evs_uid, uid_, tsegv_que, thread_num, worker_num, que, sworks, workshop, cnt,
                 tstart_que, texit_que, curr_sndidx, thr, prod, runpc, reg, hist>>

\* (mutant) stop() sets the flags and returns without the second loop
StopWithoutIncr ==
  /\ stopper.pc = "incr"
  /\ stopper' = [pc |-> "done", i |-> 0]
  /\ UNCHANGED <<plan, req, ctor, dtor, evs_uid, uid_, tsegv_que, thread_num, worker_num, que, sworks, workshop, cnt,
                 stop_, tstart_que, texit_que, curr_sndidx, thr, prod, runpc,
                 reg, hist>>

\* stop(), second loop: thrdat.cnt_.synchronized_incr(mtx_, cv_)
StopIncr ==
  /\ stopper.pc = "incr"
  /\ cnt' = synchronized_incr_cnt(stopper.i)
  /\ thr' = synchronized_incr_thr(stopper.i)
  /\ stopper' = IF stopper.i + 1 < thread_num
                THEN [stopper EXCEPT !.i = @ + 1]
                ELSE [pc |-> "done", i |-> 0]
  /\ UNCHANGED <<plan, req, ctor, dtor, evs_uid, uid_, tsegv_que, thread_num, worker_num, que, sworks, workshop, stop_,
                 tstart_que, texit_que, curr_sndidx, prod, runpc, reg, hist>>

\* ---- the dispatcher threads: run()'s lambda and trun() ------------------
ThreadVarsUnchanged ==
  UNCHANGED <<plan, req, ctor, dtor, evs_uid, uid_, tsegv_que, thread_num, worker_num, curr_sndidx, prod, stopper, runpc, reg>>

\* run(): std::thread started, trun(i) entered
ThreadStart(t) ==
  /\ runpc = "joining"
  /\ thr[t].pc = "new"
  /\ thr' = [thr EXCEPT ![t].pc = "tstart"]
  /\ UNCHANGED <<que, sworks, workshop, cnt, stop_, tstart_que, texit_que, hist>>
  /\ ThreadVarsUnchanged

\* trun: "Run all tstart event": pop, handle, release; leave on nullptr
TstartPhase(t) ==
  /\ thr[t].pc = "tstart"
  /\ IF tstart_que[t] = << >>
     THEN /\ thr' = [thr EXCEPT ![t].pc = "loop", ![t].expected_pworks = 0]
          /\ UNCHANGED <<tstart_que, hist>>
     ELSE /\ tstart_que' = [tstart_que EXCEPT ![t] = Tail(@)]
          /\ hist' = [hist EXCEPT !.tstartRan[t] = Append(@, Head(tstart_que[t]))]
          /\ UNCHANGED thr
  /\ UNCHANGED <<que, sworks, workshop, cnt, stop_, texit_que>>
  /\ ThreadVarsUnchanged

\* (mutant) the head of the work loop looks at the tstart queue again and
\* runs a handler it finds there
LoopCheckRunningTstart(t) ==
  /\ thr[t].pc = "loop"
  /\ IF tstart_que[t] = << >>
     THEN /\ thr' = [thr EXCEPT ![t].pc = IF stop_[t] THEN "texit"
                                          ELSE IF thr[t].expected_pworks > 0
                                          THEN "do_job" ELSE "spin"]
          /\ UNCHANGED <<tstart_que, hist>>
     ELSE /\ tstart_que' = [tstart_que EXCEPT ![t] = Tail(@)]
          /\ hist' = [hist EXCEPT !.tstartRan[t] = Append(@, Head(tstart_que[t]))]
          /\ UNCHANGED thr
  /\ UNCHANGED <<que, sworks, workshop, cnt, stop_, texit_que>>
  /\ ThreadVarsUnchanged

\* trun: while (!thrdat.is_stop()) { if (expected_pworks > 0) goto do_job; ...
LoopCheck(t) ==
  /\ thr[t].pc = "loop"
  /\ thr' = [thr EXCEPT ![t].pc = IF stop_[t] THEN "texit"
                                  ELSE IF thr[t].expected_pworks > 0 THEN "do_job"
                                  ELSE "spin"]
  /\ UNCHANGED <<que, sworks, workshop, cnt, stop_, tstart_que, texit_que, hist>>
  /\ ThreadVarsUnchanged

\* trun: one iteration of the aggressive polling loop (the loop ends either
\* by the goto or by running out of iterations)
Spin(t) ==
  /\ thr[t].pc = "spin"
  /\ LET e == thr[t].expected_pworks + cnt[t]
     IN \E nxt \in {"spin", "poll"} :
          thr' = [thr EXCEPT ![t].expected_pworks = e,
                             ![t].pc = IF e > 0 THEN "do_job" ELSE nxt]
  /\ cnt' = [cnt EXCEPT ![t] = 0]
  /\ UNCHANGED <<que, sworks, workshop, stop_, tstart_que, texit_que, hist>>
  /\ ThreadVarsUnchanged

\* trun: one iteration of the moderate polling loop
Poll(t) ==
  /\ thr[t].pc = "poll"
  /\ LET e == thr[t].expected_pworks + cnt[t]
     IN \E nxt \in {"poll", "wait"} :
          thr' = [thr EXCEPT ![t].expected_pworks = e,
                             ![t].pc = IF e > 0 \/ stop_[t] THEN "do_job" ELSE nxt]
  /\ cnt' = [cnt EXCEPT ![t] = 0]
  /\ UNCHANGED <<que, sworks, workshop, stop_, tstart_que, texit_que, hist>>
  /\ ThreadVarsUnchanged

\* trun: expected_pworks += cnt_.synchronized_reset(mtx_, cv_): under the
\* mutex, take the counter if it is positive, else block on the cv
WaitNotify(t) ==
  /\ thr[t].pc = "wait"
  /\ IF cnt[t] > 0
     THEN /\ thr' = [thr EXCEPT ![t].expected_pworks = @ + cnt[t],
                                ![t].pc = "do_job"]
          /\ cnt' = [cnt EXCEPT ![t] = 0]
     ELSE /\ thr' = [thr EXCEPT ![t].pc = "blocked"]
          /\ UNCHANGED cnt
  /\ UNCHANGED <<que, sworks, workshop, stop_, tstart_que, texit_que, hist>>
  /\ ThreadVarsUnchanged

\* (mutant) do_job starts the sweep without looking at the stop flag
DoJobUnchecked(t) ==
  /\ thr[t].pc = "do_job"
  /\ thr' = [thr EXCEPT ![t].pc = "claim", ![t].wlv = "prior",
                        ![t].k = 1, ![t].pworks = 0]
  /\ UNCHANGED <<que, sworks, workshop, cnt, stop_, tstart_que, texit_que, hist>>
  /\ ThreadVarsUnchanged

\* trun, do_job: if (is_stop()) break; else start the sweep over priors
DoJob(t) ==
  /\ thr[t].pc = "do_job"
  /\ thr' = IF stop_[t]
            THEN [thr EXCEPT ![t].pc = "texit"]
            ELSE [thr EXCEPT ![t].pc = "claim", ![t].wlv = "prior",
                             ![t].k = 1, ![t].pworks = 0]
  /\ UNCHANGED <<que, sworks, workshop, cnt, stop_, tstart_que, texit_que, hist>>
  /\ ThreadVarsUnchanged

\* the worker index the sweep of thread t is at
SweepList(t) == IF thr[t].wlv = "prior" THEN priors(t) ELSE minors(t)
SweepAt(t)   == SweepList(t)[thr[t].k]

\* where trun goes after do_work on a minor worker returned
AfterMinor(t, th) ==
  IF th.k < Len(minors(t)) THEN [th EXCEPT !.pc = "claim", !.k = @ + 1]
  ELSE [th EXCEPT !.pc = "loop"]

\* (mutant) the slot is read but not exchanged for nullptr
ExchangeLoadOnly(wkridx) == workshop

\* do_work: wkr = workshop_[wkridx].exchange(nullptr, acq_rel)
Exchange(wkridx) == [workshop EXCEPT ![wkridx] = nullptr]

\* do_work: the claim; on success set_worker(wkr) and enter wkr->work()
Claim(t) ==
  /\ thr[t].pc = "claim"
  /\ LET n == SweepAt(t)
         wkr == workshop[n]
     IN /\ workshop' = Exchange(n)
        /\ thr' = IF wkr # nullptr
                  THEN [thr EXCEPT ![t].pc = "work", ![t].wkr = wkr, ![t].works = 0]
                  ELSE IF thr[t].wlv = "prior"
                  THEN [thr EXCEPT ![t].pc = "acct", ![t].works = 0]
                  ELSE [thr EXCEPT ![t] = AfterMinor(t, [@ EXCEPT !.works = 0])]
  /\ UNCHANGED <<que, sworks, cnt, stop_, tstart_que, texit_que, hist>>
  /\ ThreadVarsUnchanged

\* worker::work(thrctx, wlv): a drain at minor level adds the number of
\* events it handled to sworks_ of the worker
AddSworks(t, n) ==
  IF thr[t].wlv = "minor" THEN [sworks EXCEPT ![n] = @ + thr[t].works]
  ELSE sworks

\* worker::fetch_sworks(): the value of sworks_, which is reset to 0
fetch_sworks(n) == sworks[n]
AfterFetchSworks(n) == [sworks EXCEPT ![n] = 0]

\* (mutant) the drain takes the newest event of the queue first
WorkPopNewest(t) ==
  /\ thr[t].pc = "work"
  /\ LET n == thr[t].wkr[1]
     IN IF que[n] = << >>
        THEN /\ thr' = [thr EXCEPT ![t].pc = "release"]
             /\ sworks' = AddSworks(t, n)
             /\ UNCHANGED que
        ELSE /\ thr' = [thr EXCEPT ![t].pc = "handle", ![t].ev = que[n][Len(que[n])],
                                   ![t].works = @ + 1]
             /\ que' = [que EXCEPT ![n] = SubSeq(@, 1, Len(@) - 1)]
             /\ UNCHANGED sworks
  /\ UNCHANGED <<workshop, cnt, stop_, tstart_que, texit_que, hist>>
  /\ ThreadVarsUnchanged

\* worker::work: ev = que_.pop(); nullptr ends the drain (a drain at minor
\* level adds its count to sworks_), else ++works and handle() is entered
WorkPop(t) ==
  /\ thr[t].pc = "work"
  /\ LET n == thr[t].wkr[1]
     IN IF que[n] = << >>
        THEN /\ thr' = [thr EXCEPT ![t].pc = "release"]
             /\ sworks' = AddSworks(t, n)
             /\ UNCHANGED que
        ELSE /\ thr' = [thr EXCEPT ![t].pc = "handle", ![t].ev = Head(que[n]),
                                   ![t].works = @ + 1]
             /\ que' = [que EXCEPT ![n] = Tail(@)]
             /\ UNCHANGED sworks
  /\ UNCHANGED <<workshop, cnt, stop_, tstart_que, texit_que, hist>>
  /\ ThreadVarsUnchanged

\* (mutant) an event popped after the stop flag was set is released
\* without being handled
HandleUnlessStopped(t) ==
  /\ thr[t].pc = "handle"
  /\ thr' = [thr EXCEPT ![t].pc = "work", ![t].ev = << >>]
  /\ hist' = IF stop_[t] THEN hist
             ELSE [hist EXCEPT !.handled[thr[t].wkr[1]] =
                                  Append(@, [ev |-> thr[t].ev, by |-> t]),
                               !.works[t] = @ + 1]
  /\ UNCHANGED <<que, sworks, workshop, cnt, stop_, tstart_que, texit_que>>
  /\ ThreadVarsUnchanged

\* worker::work: ev->handle(thrctx) returns, ev->release()
Handle(t) ==
  /\ thr[t].pc = "handle"
  /\ thr' = [thr EXCEPT ![t].pc = "work", ![t].ev = << >>]
  /\ hist' = [hist EXCEPT !.handled[thr[t].wkr[1]] =
                             Append(@, [ev |-> thr[t].ev, by |-> t]),
                          !.works[t] = @ + 1]
  /\ UNCHANGED <<que, sworks, workshop, cnt, stop_, tstart_que, texit_que>>
  /\ ThreadVarsUnchanged

\* (mutant) the scoped release leaves the slot empty
SlotStoreNothing(wkr) == workshop

\* do_work, the scoped release: workshop_[wkridx].store(wkr, release)
SlotStore(wkr) == [workshop EXCEPT ![wkr[1]] = wkr]

\* do_work, the scoped release: set_worker(nullptr); the slot is restored
Release(t) ==
  /\ thr[t].pc = "release"
  /\ workshop' = SlotStore(thr[t].wkr)
  /\ thr' = IF thr[t].wlv = "prior"
            THEN [thr EXCEPT ![t].pc = "acct", ![t].wkr = nullptr]
            ELSE [thr EXCEPT ![t] = AfterMinor(t, [@ EXCEPT !.wkr = nullptr])]
  /\ UNCHANGED <<que, sworks, cnt, stop_, tstart_que, texit_que, hist>>
  /\ ThreadVarsUnchanged

\* trun, prior sweep: pworks += do_work(..); expected_pworks -= pworks;
\* expected_pworks -= worker_list_[n].fetch_sworks(); then the next prior,
\* or "if (pworks > 0) continue;", or the sweep over minors
Account(t) ==
  /\ thr[t].pc = "acct"
  /\ LET n  == SweepAt(t)
         pw == thr[t].pworks + thr[t].works
         e  == thr[t].expected_pworks - pw - fetch_sworks(n)
         th == [thr[t] EXCEPT !.pworks = pw, !.expected_pworks = e, !.works = 0]
     IN /\ sworks' = AfterFetchSworks(n)
        /\ thr' = [thr EXCEPT ![t] =
                     IF th.k < Len(priors(t))
                     THEN [th EXCEPT !.pc = "claim", !.k = @ + 1]
                     ELSE IF pw > 0 \/ minors(t) = << >>
                     THEN [th EXCEPT !.pc = "loop"]
                     ELSE [th EXCEPT !.pc = "claim", !.wlv = "minor", !.k = 1]]
  /\ UNCHANGED <<que, workshop, cnt, stop_, tstart_que, texit_que, hist>>
  /\ ThreadVarsUnchanged

\* (mutant) the texit queue is not drained when the loop is left
TexitPhaseSkipped(t) ==
  /\ thr[t].pc = "texit"
  /\ thr' = [thr EXCEPT ![t].pc = "exited"]
  /\ UNCHANGED <<que, sworks, workshop, cnt, stop_, tstart_que, texit_que, hist>>
  /\ ThreadVarsUnchanged

\* trun, the texit finally: pop, handle, release; on nullptr trun is left and
\* the thread ends (after a fault that unwound the stack, the recovery
\* callback is next)
TexitPhase(t) ==
  /\ thr[t].pc = "texit"
  /\ IF texit_que[t] = << >>
     THEN /\ thr' = [thr EXCEPT ![t].pc = IF thr[t].fault = "no" THEN "exited"
                                          ELSE "segv"]
          /\ UNCHANGED <<texit_que, hist>>
     ELSE /\ texit_que' = [texit_que EXCEPT ![t] = Tail(@)]
          /\ hist' = [hist EXCEPT !.texitRan[t] = Append(@, Head(texit_que[t]))]
          /\ UNCHANGED thr
  /\ UNCHANGED <<que, sworks, workshop, cnt, stop_, tstart_que>>
  /\ ThreadVarsUnchanged

\* a hardware fault inside ev->handle(thrctx): csegv::pcall abandons trun
\* and calls the recovery callback. Whether the stack is unwound on the way
\* (the scoped release of do_work and the texit finally of trun run) or
\* control jumps out of the frames (they do not run) depends on the platform
\* csegv is built for: both outcomes are possible.
Fault(t) ==
  /\ plan.fault
  /\ thr[t].pc = "handle"
  /\ \A u \in Threads : thr[u].fault = "no"
  /\ \/ /\ thr' = [thr EXCEPT ![t].pc = "texit", ![t].fault = "unwound",
                              ![t].wkr = nullptr, ![t].ev = << >>]
        /\ workshop' = [workshop EXCEPT ![thr[t].wkr[1]] = thr[t].wkr]
     \/ /\ thr' = [thr EXCEPT ![t].pc = "segv", ![t].fault = "jumped"]
        /\ UNCHANGED workshop
  /\ hist' = [hist EXCEPT !.faultOn = @ \cup {thr[t].wkr[1]}]
  /\ UNCHANGED <<que, sworks, cnt, stop_, tstart_que, texit_que>>
  /\ ThreadVarsUnchanged

\* run(), the recovery callback of csegv::pcall: "Run all tsegv event": pop,
\* handle, release, ++count; on nullptr, log the trace if count == 0; the
\* thread ends
Segv(t) ==
  /\ thr[t].pc = "segv"
  /\ IF tsegv_que[t] = << >>
     THEN /\ thr' = [thr EXCEPT ![t].pc = "exited"]
          /\ hist' = IF hist.tsegvRan[t] = << >>
                     THEN [hist EXCEPT !.logged = @ \cup {t}] ELSE hist
          /\ UNCHANGED tsegv_que
     ELSE /\ tsegv_que' = [tsegv_que EXCEPT ![t] = Tail(@)]
          /\ hist' = [hist EXCEPT !.tsegvRan[t] = Append(@, Head(tsegv_que[t]))]
          /\ UNCHANGED thr
  /\ UNCHANGED <<plan, req, ctor, dtor, evs_uid, uid_, thread_num, worker_num,
                 curr_sndidx, prod, stopper, runpc, reg,
                 que, sworks, workshop, cnt, stop_, tstart_que, texit_que>>

ThreadStep(t) ==
  \/ Fault(t) \/ Segv(t)
  \/ ThreadStart(t) \/ TstartPhase(t) \/ LoopCheck(t) \/ Spin(t) \/ Poll(t)
  \/ WaitNotify(t) \/ DoJob(t) \/ Claim(t) \/ WorkPop(t) \/ Handle(t)
  \/ Release(t) \/ Account(t) \/ TexitPhase(t)

\* ---- lifecycle registration: tstart(f), texit(f) ------------------------
\* tstart() / texit() / tsegv() is entered with a new handler
RegCall ==
  /\ Live
  /\ reg.pc = "idle"
  /\ plan.late \/ runpc = "init"
  /\ \/ /\ reg.nstart < plan.tstarts
        /\ reg' = [reg EXCEPT !.pc = "tstart", !.i = 0, !.nstart = @ + 1,
                              !.h = reg.nstart + 1]
     \/ /\ reg.nexit < plan.texits
        /\ reg' = [reg EXCEPT !.pc = "texit", !.i = 0, !.nexit = @ + 1,
                              !.h = reg.nexit + 1]
     \/ /\ reg.nsegv < plan.tsegvs
        /\ reg' = [reg EXCEPT !.pc = "tsegv", !.i = 0, !.nsegv = @ + 1,
                              !.h = reg.nsegv + 1]
  /\ UNCHANGED <<plan, req, ctor, dtor, evs_uid, uid_, tsegv_que, thread_num, worker_num, que, sworks, workshop, cnt, stop_,
                 tstart_que, texit_que, curr_sndidx, thr, prod, stopper, runpc, hist>>

\* make_event<Event>() called off a dispatcher thread (current() is null):
\* ACTORX_EXPECTS(uid_ < ASEV_MAX_EV_SERVICE) holds
MakeEventExpects == uid_ < ASEV_MAX_EV_SERVICE

\* make_event<Event>(): curr_pool = pool_array.arr_[uid_] of the calling
\* thread; a null slot gets a new mpsc_pool<Event>, a filled slot is kept.
\* reg.pool is the element type of the pool in the slot of the thread that
\* calls tstart() / texit() / tsegv(); the result is the element type of the
\* pool the call is served from
PoolServing(Event) == IF reg.pool = "none" THEN Event ELSE reg.pool

\* make_event<Event>(): pool = gsl::narrow<event_pool_t*>(curr_pool->pool_
\* .get()) converts the pool_base* with a static_cast whatever the pool
\* was created as, and cque::get<Event>(*pool) uses it. The conversion is
\* defined when the pool in the slot is an mpsc_pool<Event>
NarrowDefined(Event) == PoolServing(Event) = Event

\* (mutant) the handler is queued on the first thread only
PriTstartFirstOnly ==
  /\ reg.pc = "tstart"
  /\ tstart_que' = [tstart_que EXCEPT ![reg.i] = Append(@, reg.h)]
  /\ reg' = [reg EXCEPT !.pc = "idle", !.i = 0, !.doneT = @ \cup {reg.h}]
  /\ UNCHANGED <<plan, req, ctor, dtor, evs_uid, uid_, tsegv_que, thread_num, worker_num, que, sworks, workshop, cnt, stop_,
                 texit_que, curr_sndidx, thr, prod, stopper, runpc, hist>>

\* pri_tstart: for (auto& thrdat : thread_data_list_) { ev = make_event();
\* tstart_que_.push(ev) }
PriTstart ==
  /\ reg.pc = "tstart"
  /\ IF MakeEventExpects
     THEN \/ /\ tstart_que' = [tstart_que EXCEPT ![reg.i] = Append(@, reg.h)]
             /\ reg' = IF reg.i + 1 < thread_num
                       THEN [reg EXCEPT !.i = @ + 1,
                                        !.pool = PoolServing("tstart_event")]
                       ELSE [reg EXCEPT !.pc = "idle", !.i = 0,
                                        !.doneT = @ \cup {reg.h},
                                        !.pool = PoolServing("tstart_event")]
          \/ /\ ~NarrowDefined("tstart_event")
             /\ reg' = [reg EXCEPT !.pc = "crashed"]
             /\ UNCHANGED tstart_que
     ELSE /\ reg' = [reg EXCEPT !.pc = "failed"]
          /\ UNCHANGED tstart_que
  /\ UNCHANGED <<plan, req, ctor, dtor, evs_uid, uid_, tsegv_que, thread_num, worker_num, que, sworks, workshop, cnt, stop_,
                 texit_que, curr_sndidx, thr, prod, stopper, runpc, hist>>

\* pri_texit: for (auto& thrdat : thread_data_list_) { ev = make_event();
\* texit_que_.push(ev) }
PriTexit ==
  /\ reg.pc = "texit"
  /\ IF MakeEventExpects
     THEN \/ /\ texit_que' = [texit_que EXCEPT ![reg.i] = Append(@, reg.h)]
             /\ reg' = IF reg.i + 1 < thread_num
                       THEN [reg EXCEPT !.i = @ + 1,
                                        !.pool = PoolServing("texit_event")]
                       ELSE [reg EXCEPT !.pc = "idle", !.i = 0,
                                        !.doneX = @ \cup {reg.h},
                                        !.pool = PoolServing("texit_event")]
          \/ /\ ~NarrowDefined("texit_event")
             /\ reg' = [reg EXCEPT !.pc = "crashed"]
             /\ UNCHANGED texit_que
     ELSE /\ reg' = [reg EXCEPT !.pc = "failed"]
          /\ UNCHANGED texit_que
  /\ UNCHANGED <<plan, req, ctor, dtor, evs_uid, uid_, tsegv_que, thread_num, worker_num, que, sworks, workshop, cnt, stop_,
                 tstart_que, curr_sndidx, thr, prod, stopper, runpc, hist>>

\* pri_tsegv: for (auto& thrdat : thread_data_list_) { ev = make_event();
\* tsegv_que_.push(ev) }
PriTsegv ==
  /\ reg.pc = "tsegv"
  /\ IF MakeEventExpects
     THEN \/ /\ tsegv_que' = [tsegv_que EXCEPT ![reg.i] = Append(@, reg.h)]
             /\ reg' = IF reg.i + 1 < thread_num
                       THEN [reg EXCEPT !.i = @ + 1,
                                        !.pool = PoolServing("tsegv_event")]
                       ELSE [reg EXCEPT !.pc = "idle", !.i = 0,
                                        !.doneS = @ \cup {reg.h},
                                        !.pool = PoolServing("tsegv_event")]
          \/ /\ ~NarrowDefined("tsegv_event")
             /\ reg' = [reg EXCEPT !.pc = "crashed"]
             /\ UNCHANGED tsegv_que
     ELSE /\ reg' = [reg EXCEPT !.pc = "failed"]
          /\ UNCHANGED tsegv_que
  /\ UNCHANGED <<plan, req, ctor, dtor, evs_uid, uid_, thread_num, worker_num,
                 que, sworks, workshop, cnt, stop_, tstart_que, texit_que,
                 curr_sndidx, thr, prod, stopper, runpc, hist>>

\* ---- destruction: ~ev_service(), ~worker() ------------------------------
\* (mutant) the destructor handles the events it finds in the worker queues
DestroyHandlingResidue ==
  /\ Live
  /\ ctor.pc = "done"
  /\ runpc \in {"init", "returned"}
  /\ stopper.pc \in {"idle", "done"}
  /\ reg.pc = "idle"
  /\ \A p \in Producers : prod[p].pc = "idle"
  /\ dtor' = "done"
  /\ tstart_que' = [t \in Threads |-> << >>]
  /\ texit_que' = [t \in Threads |-> << >>]
  /\ que' = [w \in Workers |-> << >>]
  /\ hist' = [hist EXCEPT !.handled =
                 [w \in Workers |->
                    hist.handled[w] \o [i \in 1 .. Len(que[w]) |->
                                          [ev |-> que[w][i], by |-> 0]]],
               !.released = [que |-> [w \in Workers |-> << >>],
                             tstart |-> tstart_que, texit |-> texit_que]]
  /\ UNCHANGED <<plan, req, ctor, evs_uid, uid_, tsegv_que, thread_num, worker_num,
                 sworks, workshop, cnt, stop_, curr_sndidx, thr, prod, stopper,
                 runpc, reg>>

\* ~ev_service: no thread is inside the dispatcher any more (run() has
\* returned or was never called); every tstart and texit queue is popped
\* empty and the events released, then worker_list_.clear() runs ~worker,
\* which pops the queue of the worker empty and releases the events
Destroy ==
  /\ Live
  /\ ctor.pc = "done"
  /\ runpc \in {"init", "returned"}
  /\ stopper.pc \in {"idle", "done"}
  /\ reg.pc = "idle"
  /\ \A p \in Producers : prod[p].pc = "idle"
  /\ dtor' = "done"
  /\ tstart_que' = [t \in Threads |-> << >>]
  /\ texit_que' = [t \in Threads |-> << >>]
  /\ que' = [w \in Workers |-> << >>]
  /\ hist' = [hist EXCEPT !.released = [que |-> que, tstart |-> tstart_que,
                                        texit |-> texit_que]]
  /\ UNCHANGED <<plan, req, ctor, evs_uid, uid_, tsegv_que, thread_num, worker_num,
                 sworks, workshop, cnt, stop_, curr_sndidx, thr, prod, stopper,
                 runpc, reg>>

\* ---- the specification --------------------------------------------------
Next ==
  \/ CtorNormalize
  \/ Construct
  \/ \E p \in Producers : SelectLoad(p)
  \/ \E p \in Producers : SelectStore(p)
  \/ \E p \in Producers : PushEvent(p)
  \/ \E p \in Producers : NotifyThread(p)
  \/ RunStart
  \/ RunJoin
  \/ StopCall
  \/ StopFlag
  \/ StopIncr
  \/ RegCall
  \/ PriTstart
  \/ PriTexit
  \/ PriTsegv
  \/ Destroy
  \/ \E t \in Threads : ThreadStart(t)
  \/ \E t \in Threads : TstartPhase(t)
  \/ \E t \in Threads : LoopCheck(t)
  \/ \E t \in Threads : Spin(t)
  \/ \E t \in Threads : Poll(t)
  \/ \E t \in Threads : WaitNotify(t)
  \/ \E t \in Threads : DoJob(t)
  \/ \E t \in Threads : Claim(t)
  \/ \E t \in Threads : WorkPop(t)
  \/ \E t \in Threads : Handle(t)
  \/ \E t \in Threads : Release(t)
  \/ \E t \in Threads : Account(t)
  \/ \E t \in Threads : TexitPhase(t)
  \/ \E t \in Threads : Fault(t)
  \/ \E t \in Threads : Segv(t)

Spec == Init /\ [][Next]_vars

\* Scheduling: every started dispatcher thread keeps being scheduled, a
\* stop() that was entered runs to its end, and run() returns once every
\* join has. Submitting threads and registering threads owe nothing.
Fairness ==
  /\ \A t \in 0 .. MaxThreads - 1 : WF_vars(t \in Threads /\ ThreadStep(t))
  /\ WF_vars(StopFlag)
  /\ WF_vars(StopIncr)
  /\ WF_vars(RunJoin)

FairSpec == Init /\ [][Next]_vars /\ Fairness

\* Scheduling, with submitters that return: a thread inside async()
\* completes its call.
SubmitFairness ==
  \A p \in Producers :
    WF_vars(SelectStore(p) \/ PushEvent(p) \/ NotifyThread(p))

LiveSpec == Init /\ [][Next]_vars /\ Fairness /\ SubmitFairness

TypeOK ==
  /\ Constructed => /\ \A t \in Threads : thr[t].wkr \in {nullptr} \cup {WorkerPtr(w) : w \in Workers}
                    /\ \A w \in Workers : workshop[w] \in {nullptr, WorkerPtr(w)}

\* ---- properties ---------------------------------------------------------
\* the threads inside worker.work() of worker w
InWork(w) == { t \in Threads : thr[t].pc \in {"work", "handle"}
                               /\ thr[t].wkr = WorkerPtr(w) }

\* the threads that hold the claim on worker w: between the successful
\* exchange and the store of the scoped release
Holders(w) == { t \in Threads : thr[t].wkr = WorkerPtr(w) }

\* C1: strand serialization: for every worker w at most one thread is
\* inside worker.work() of w, so at most one event of w is being handled.
StrandSerialization ==
  \A w \in Workers :
    /\ Cardinality(InWork(w)) <= 1
    /\ Cardinality({ t \in Threads : thr[t].pc = "handle"
                                     /\ thr[t].wkr = WorkerPtr(w) }) <= 1

\* C1 witness: a minor thread is handling an event of w while the prior
\* thread of w has tried to claim w and was turned away.
StrandContended ==
  \E w \in Workers : \E t1, t2 \in Threads :
    /\ t1 # t2
    /\ thr[t1].pc = "handle" /\ thr[t1].wkr = WorkerPtr(w)
    /\ thr[t1].wlv = "minor"
    /\ thr[t2].pc = "acct" /\ SweepAt(t2) = w /\ thr[t2].works = 0

\* C9: workshop slot invariant: the slot of w is null exactly when one
\* thread holds the claim on w; holders plus non-null slot is always 1.
WorkshopSlotInvariant ==
  \A w \in Workers :
    /\ workshop[w] \in {nullptr, WorkerPtr(w)}
    /\ Cardinality(Holders(w)) + (IF workshop[w] # nullptr THEN 1 ELSE 0) = 1

\* C9 witness: a slot is null and held, and an earlier claim of the same
\* worker has already been released (an event of it was handled before).
SlotHeldAgain ==
  \E w \in Workers :
    /\ workshop[w] = nullptr
    /\ Holders(w) # {}
    /\ Len(hist.handled[w]) > 0
    /\ \E t \in Holders(w) : thr[t].works = 0

\* C2: FIFO within a strand: two events that one producer pushed to the
\* same worker are handled in the order of their submission.
FifoWithinStrand ==
  \A w \in Workers : \A i, j \in 1 .. Len(hist.handled[w]) :
    (i < j /\ hist.handled[w][i].ev[1] = hist.handled[w][j].ev[1])
      => hist.handled[w][i].ev[2] < hist.handled[w][j].ev[2]

\* C2 witness: two events of one producer on one worker were handled by two
\* different threads, that is in two separate claims, one of them a minor's.
FifoAcrossClaims ==
  \E w \in Workers : \E i, j \in 1 .. Len(hist.handled[w]) :
    /\ i < j
    /\ hist.handled[w][i].ev[1] = hist.handled[w][j].ev[1]
    /\ hist.handled[w][i].by # hist.handled[w][j].by

\* number of occurrences of x in the sequence q
RECURSIVE Count(_, _)
Count(q, x) == IF q = << >> THEN 0
               ELSE (IF Head(q) = x THEN 1 ELSE 0) + Count(Tail(q), x)

\* the events of a handled log, without the handling threads
Events(log) == [i \in 1 .. Len(log) |-> log[i].ev]

Max(a, b) == IF a >= b THEN a ELSE b

\* C3 (as claimed): when stop() has completed and run() has returned, and
\* no fault has occurred, every event that was submitted has been handled.
AllHandledAtStop ==
  (Stopped /\ NoFault /\ \A p \in Producers : prod[p].pc = "idle")
    => \A w \in Workers : Len(hist.handled[w]) = Len(hist.pushed[w])

\* C3 (amended): when stop() has completed and run() has returned, and no
\* fault has occurred, every event pushed to a worker has been handled
\* exactly once, in push order, or is still in the queue of that worker:
\* none is dropped, none handled twice.
HandledOrQueuedAtStop ==
  (Stopped /\ dtor = "alive" /\ NoFault) => \A w \in Workers : hist.pushed[w] = Events(hist.handled[w]) \o que[w]

\* C3 witness: the service has stopped with some events handled and others
\* left in a queue.
StoppedWithResidue ==
  /\ Stopped
  /\ \E w \in Workers : Len(hist.handled[w]) > 0
  /\ \E w \in Workers : que[w] # << >>

\* C5: a tstart handler registered before run() has run exactly once on
\* every thread that left the tstart phase, never more than once on any
\* thread, and a thread still in that phase has claimed no worker and
\* handled no event.
TstartFanout ==
  \A t \in Threads :
    /\ \A h \in 1 .. MaxTstart : Count(hist.tstartRan[t], h) <= 1
    /\ thr[t].pc \notin {"new", "tstart"}
         => \A h \in hist.earlyT : Count(hist.tstartRan[t], h) = 1
    /\ thr[t].pc \in {"new", "tstart"}
         => hist.works[t] = 0 /\ thr[t].wkr = nullptr

\* C5 witness: with several threads, a handler registered before run() has
\* run on all of them and one of them has then handled an event.
TstartThenEvent ==
  /\ thread_num > 1
  /\ hist.earlyT # {}
  /\ \A t \in Threads : hist.tstartRan[t] # << >>
  /\ \E t \in Threads : hist.works[t] > 0

\* C6: on a normal stop (the thread took no fault), a texit handler
\* registered before run() has run exactly once on every thread that has ended, never more than once on any thread,
\* and once a thread is in its texit phase it claims no worker and handles
\* no event any more.
TexitFanout ==
  /\ [](\A t \in Threads :
          /\ \A h \in 1 .. MaxTexit : Count(hist.texitRan[t], h) <= 1
          /\ (thr[t].pc = "exited" /\ thr[t].fault = "no")
               => \A h \in hist.earlyX : Count(hist.texitRan[t], h) = 1
          /\ (thr[t].pc \in {"texit", "exited"} /\ thr[t].fault = "no")
               => thr[t].wkr = nullptr)
  /\ [][\A t \in Threads :
          (thr[t].pc \in {"texit", "exited"} /\ thr[t].fault = "no")
            => /\ thr'[t].pc \in {"texit", "exited"}
               /\ hist'.works[t] = hist.works[t]]_vars

\* C6 witness: with several threads, all have ended, each has run the texit
\* handler registered before run(), and one had handled an event before.
EventThenTexit ==
  /\ thread_num > 1
  /\ hist.earlyX # {}
  /\ \A t \in Threads : thr[t].pc = "exited" /\ hist.texitRan[t] # << >>
  /\ \E t \in Threads : hist.works[t] > 0

\* C8 (as claimed): any worker_num consecutive results of
\* select_strand_index are pairwise distinct.
RoundRobinDistinct ==
  \A i, j \in 1 .. Len(hist.selected) :
    (i < j /\ j - i < worker_num) => hist.selected[i] # hist.selected[j]

\* C10: the constructor normalizes the sizes: thread_num 0 becomes 1,
\* worker_num becomes max(worker_num, thread_num); the lists are built with
\* these sizes, so worker_num >= thread_num >= 1 and every thread has a
\* prior worker.
CtorNormalizesSizes ==
  /\ [](/\ ctor.pc = "normalized"
           => /\ ctor.thread_num = (IF req[1] = 0 THEN 1 ELSE req[1])
              /\ ctor.worker_num = Max(req[2], ctor.thread_num)
        /\ Constructed
           => /\ thread_num >= 1
              /\ worker_num >= thread_num
              /\ \A tid \in Threads : priors(tid) # << >>
              /\ \A tid \in Threads :
                   \E w \in Workers : w % thread_num = tid)
  /\ [][ctor.pc = "normalized" /\ ctor'.pc = "done"
          => /\ thread_num' = (IF req[1] = 0 THEN 1 ELSE req[1])
             /\ worker_num' = Max(req[2], thread_num')
             /\ DOMAIN thr' = 0 .. thread_num' - 1
             /\ DOMAIN workshop' = 0 .. worker_num' - 1]_vars

\* C10 witness: a request for 0 threads and fewer workers than that has
\* been normalized to one thread and one worker.
CtorZeroThreads ==
  /\ ctor.pc = "normalized"
  /\ req[1] = 0
  /\ ctor.thread_num = 1
  /\ ctor.worker_num = 1

\* C7: once stop() has been called and run() has started, every thread
\* leaves its main loop and ends, and run() returns.
StopTerminates ==
  (stopper.pc # "idle" /\ runpc # "init")
    ~> (runpc = "returned" /\ \A t \in Threads : thr[t].pc = "exited")

\* C7 witness: stop() has set the flag of a thread that is blocked on its
\* condition variable, and is about to signal it.
StopFindsBlocked ==
  /\ stopper.pc = "incr"
  /\ \E t \in Threads : t >= stopper.i /\ thr[t].pc = "blocked" /\ stop_[t]
  /\ \E t \in Threads : thr[t].pc \in {"work", "handle"}

\* the dispatcher is running and idle but for one event that has just been
\* submitted to worker w: the event is queued, the counter of the prior thread
\* of w has been incremented, every thread is in one of the three wait tiers
IdleButOneEvent(w) ==
  /\ w \in Workers
  /\ runpc = "joining"
  /\ stopper.pc = "idle"
  /\ reg.pc = "idle"
  /\ \A p \in Producers : prod[p].pc = "idle"
  /\ \A t \in Threads : thr[t].pc \in {"spin", "poll", "wait", "blocked"}
  /\ \A v \in Workers : Len(que[v]) = (IF v = w THEN 1 ELSE 0)
  /\ \A v \in Workers : sworks[v] = 0
  /\ \A t \in Threads : cnt[t] = (IF t = NotifyTarget(w) THEN 1 ELSE 0)

\* something else than the dispatcher threads has acted since
Disturbed ==
  \/ stopper.pc # "idle"
  \/ reg.pc # "idle"
  \/ \E p \in Producers : prod[p].pc # "idle"

\* C4 (as claimed): an event submitted to an idle dispatcher is eventually
\* handled, without any further submission, under fair scheduling.
WakeLiveness ==
  \A w \in 0 .. MaxWorkers - 1 :
    IdleButOneEvent(w) ~> (Disturbed \/ (w \in Workers /\ que[w] = << >>))


\* the elements of a sequence
Range(q) == { q[i] : i \in 1 .. Len(q) }

\* C11: a submission to worker w first appends the event to the queue of w,
\* leaving every counter alone, and then increments by one the counter of
\* thread w mod thread_num and of no other thread; the event is enqueued
\* whenever the notification is pending.
SubmissionFrame ==
  /\ [](\A p \in Producers :
          prod[p].pc = "notify"
            => EventOf(p) \in Range(hist.pushed[prod[p].target]))
  /\ [][\A p \in Producers :
          /\ (prod[p].pc = "push" /\ prod'[p].pc = "notify")
               => /\ cnt' = cnt
                  /\ que' = [que EXCEPT ![prod[p].target] = Append(@, EventOf(p))]
          /\ (prod[p].pc = "notify" /\ prod'[p].pc = "idle")
               => /\ cnt' = [cnt EXCEPT ![prod[p].target % thread_num] = @ + 1]
                  /\ que' = que]_vars

\* C11 witness: with two threads not yet started, one event was submitted
\* to worker 0 and one to worker 1, and each of the two counters is at one.
NotifiedEachThread ==
  /\ thread_num = 2
  /\ Len(hist.pushed[0]) = 1
  /\ Len(hist.pushed[1]) = 1
  /\ \A p \in Producers : prod[p].pc = "idle"
  /\ cnt[0] = 1
  /\ cnt[1] = 1
  /\ \A t \in Threads : thr[t].pc = "new"


\* C12: once stop() has completed and run() has returned, a further
\* submission is appended to the queue of the selected worker, no handler is
\* invoked any more, and the destructor empties every worker queue and every
\* tstart/texit queue, releasing what it finds without handling it: every
\* event pushed was handled once or released once.
ResidueReleasedUnhandled ==
  /\ [][/\ Stopped => hist'.handled = hist.handled
        /\ \A p \in Producers :
             (Stopped /\ prod[p].pc = "push" /\ prod'[p].pc = "notify")
               => que'[prod[p].target] = Append(que[prod[p].target], EventOf(p))
        /\ (dtor = "alive" /\ dtor' = "done")
             => /\ hist'.handled = hist.handled
                /\ hist'.tstartRan = hist.tstartRan
                /\ hist'.texitRan = hist.texitRan]_vars
  /\ [](dtor = "done"
          => /\ \A w \in Workers :
                  /\ que[w] = << >>
                  /\ NoFault => hist.pushed[w]
                                  = Events(hist.handled[w]) \o hist.released.que[w]
             /\ \A t \in Threads :
                  /\ tstart_que[t] = << >>
                  /\ texit_que[t] = << >>
                  /\ \A h \in reg.doneT :
                       Count(hist.tstartRan[t], h)
                         + Count(hist.released.tstart[t], h) = 1
                  /\ \A h \in reg.doneX :
                       Count(hist.texitRan[t], h)
                         + Count(hist.released.texit[t], h) = 1)

\* C12 witness: the dispatcher was destroyed after stop() and run(), and
\* its destructor released an event that had been submitted after both.
DestroyedWithLateEvent ==
  /\ dtor = "done"
  /\ Stopped
  /\ \E w \in Workers : \E e \in hist.afterStop :
       e \in Range(hist.released.que[w])


\* C13 (as claimed): no call of tstart()/texit() on a live dispatcher
\* reaches a failed assertion, however many dispatchers the process has
\* constructed before.
SubmissionInfallible ==
  reg.pc # "failed"


\* events of worker w that were handled or were in the faulting handler
DoneOn(w) == Len(hist.handled[w]) + (IF w \in hist.faultOn THEN 1 ELSE 0)

\* every event pushed to a worker whose prior thread took no fault has been
\* handled (or was the one in the faulting handler)
PeersServed ==
  \A w \in Workers :
    thr[w % thread_num].fault = "no" => DoneOn(w) = Len(hist.pushed[w])

\* C14 (as claimed): after a fault in a handler on thread t, t runs each
\* tsegv handler queued for it once (or logs the trace if there is none)
\* and ends, and the events submitted to the workers whose prior thread took
\* no fault are eventually all handled, unless stop() is called.
CrashIsolation ==
  /\ [](\A t \in Threads :
          /\ \A h \in 1 .. MaxTsegv : Count(hist.tsegvRan[t], h) <= 1
          /\ thr[t].fault = "no" => hist.tsegvRan[t] = << >> /\ t \notin hist.logged
          /\ (thr[t].fault # "no" /\ thr[t].pc = "exited")
               => /\ \A h \in reg.doneS : Count(hist.tsegvRan[t], h) = 1
                  /\ t \in hist.logged <=> hist.tsegvRan[t] = << >>)
  /\ (~NoFault) ~> (stopper.pc # "idle" \/ PeersServed)


\* an event is queued and not handled / every pushed event was handled
Pending   == \E w \in Workers : Len(hist.handled[w]) < Len(hist.pushed[w])
AllServed == \A w \in Workers : Len(hist.handled[w]) = Len(hist.pushed[w])

\* C15 (as claimed): in a running dispatcher, with no stop and no fault and
\* under fair scheduling, whenever an event is pending the dispatcher reaches
\* a state in which every event enqueued so far has been handled.
MissedEventsPrecluded ==
  (Constructed /\ runpc = "joining" /\ Pending)
    ~> (stopper.pc # "idle" \/ ~NoFault \/ (Constructed /\ AllServed))

\* C16 (as claimed): each step of the prior sweep decreases expected_pworks
\* by the number of events drained from that prior worker plus the sworks
\* value fetched from it, so that one sweep subtracts every drained event
\* exactly once.
AccountExact ==
  [][\A t \in Threads :
       (thr[t].pc = "acct" /\ thr'[t].pc # "acct")
         => thr'[t].expected_pworks
              = thr[t].expected_pworks - thr[t].works - sworks[SweepAt(t)]]_vars


\* C17: scoped release and current_worker: in every state, a thread whose
\* current_worker is w holds the claim on w (the slot of w is null), a thread
\* that is not inside do_work has current_worker = null, and a do_work call
\* that claimed w and has ended left the slot of w restored to w
InDoWork(t) == thr[t].pc \in {"work", "handle", "release"}

ScopedRelease ==
  /\ \A t \in Threads : \A w \in Workers :
       thr[t].wkr = WorkerPtr(w) => workshop[w] = nullptr
  /\ \A t \in Threads : ~InDoWork(t) => thr[t].wkr = nullptr
  /\ \A w \in Workers :
       (\A t \in Threads : ~InDoWork(t)) => workshop[w] = WorkerPtr(w)


\* C18: lost-wakeup freedom of the wait counter: a step changes the counter
\* of a thread only by adding one increment or by a reset that returns the
\* whole value to that thread's expected_pworks and leaves zero, so every
\* increment is returned by exactly one reset; the consumer is never blocked
\* on the condition variable while its counter is positive, and an increment
\* made while it is blocked wakes it
CounterStep(t) ==
  \/ cnt'[t] = cnt[t]
  \/ cnt'[t] = cnt[t] + 1 /\ thr'[t].expected_pworks = thr[t].expected_pworks
                          /\ (thr[t].pc = "blocked" => thr'[t].pc = "wait")
  \/ cnt'[t] = 0 /\ thr'[t].expected_pworks = thr[t].expected_pworks + cnt[t]

InSweep(t) == thr[t].pc \in {"claim", "work", "handle", "release", "acct"}

\* C19 (as stated): once the stop flag of a thread is set, the thread
\* finishes at most the drain it is in: when do_work returns with the flag
\* set, the thread does not go on to claim a further prior or minor worker
NoDrainAfterStop ==
  [][\A t \in Threads :
       (stop_[t] /\ thr[t].pc \in {"release", "acct"})
         => thr'[t].pc # "claim"]_vars

\* C19: once the stop flag of a thread is set, the thread starts no new
\* sweep: it finishes at most the sweep it is in (the remaining priors and,
\* when no prior had work, the minors, each claimed at most once more) and
\* then leaves the main loop at the next check of the flag
NoSweepAfterStop ==
  [][\A t \in Threads :
       stop_[t] =>
         /\ ~InSweep(t) => ~InSweep(t)'
         /\ (InSweep(t) /\ thr'[t].pc = "claim") =>
              \/ thr'[t].wlv = thr[t].wlv /\ thr'[t].k >= thr[t].k
              \/ thr[t].wlv = "prior" /\ thr'[t].wlv = "minor"]_vars

\* the flag is set while the thread is between two workers of its sweep
StopDuringSweep ==
  \E t \in Threads : stop_[t] /\ thr[t].pc = "claim" /\ thr[t].k > 1


\* thread t has left its tstart phase (the pop that returned nullptr)
PastTstart(t) == thr[t].pc \notin {"new", "tstart"}

\* the tstart events of thread t the destructor released
ReleasedTstart(t) ==
  IF dtor = "done" THEN hist.released.tstart[t] ELSE << >>

\* C20: a tstart handler registered after run() has begun is enqueued on
\* every thread's tstart queue (once registered it is, on each thread,
\* exactly one of: run by the thread, queued, released by the destructor); a
\* thread that has passed its tstart phase invokes no tstart handler any
\* more, and what is queued for it stays queued until the destructor
\* releases it
LateTstartPartial ==
  /\ [](\A h \in reg.doneT : \A t \in Threads :
          Count(hist.tstartRan[t], h) + Count(tstart_que[t], h)
            + Count(ReleasedTstart(t), h) = 1)
  /\ [][\A t \in Threads :
          PastTstart(t) =>
            /\ hist'.tstartRan[t] = hist.tstartRan[t]
            /\ \/ dtor' = "done" /\ hist'.released.tstart[t] = tstart_que[t]
               \/ /\ dtor' = dtor
                  /\ Len(tstart_que'[t]) >= Len(tstart_que[t])
                  /\ SubSeq(tstart_que'[t], 1, Len(tstart_que[t]))
                       = tstart_que[t]]_vars

\* run() had begun when the handler was registered; one thread ran it, and
\* another, past its tstart phase, keeps it queued
LateTstartSplit ==
  /\ runpc # "init"
  /\ \E h \in reg.doneT \ hist.earlyT : \E t, u \in Threads :
       /\ Count(hist.tstartRan[t], h) = 1
       /\ PastTstart(u)
       /\ Count(hist.tstartRan[u], h) = 0
       /\ Count(tstart_que[u], h) = 1


\* C21: off-thread pool typing: every make_event<E> call of a thread that is
\* not a dispatcher thread is served from a pool whose element type is E,
\* whatever event types the thread asked this dispatcher for before
EventTypeOf(pc) == IF pc = "tstart" THEN "tstart_event"
                   ELSE IF pc = "texit" THEN "texit_event" ELSE "tsegv_event"

====
